---- MODULE Spec2Model ----
(***************************************************************************)
(* The course-marketplace backend: the users and cart_items tables, the    *)
(* token codec, the authentication middleware, the auth and cart services  *)
(* and the controllers that answer the routed HTTP requests.               *)
(*                                                                         *)
(* A request is an independently scheduled task.  Code between two awaits  *)
(* runs without interruption, and the only state requests share is the     *)
(* store, so every action below is one SQL statement together with the     *)
(* synchronous code that follows it up to the next statement.              *)
(***************************************************************************)
EXTENDS Integers, Sequences, FiniteSets, TLC

VARIABLES
  users,       \* rows of table users
  usersIdSeq,  \* next value of the users.id sequence
  cart,        \* rows of table cart_items
  cartIdSeq,   \* next value of the cart_items.id sequence
  issued,      \* tokens handed out by register and login
  registered,  \* history: what each successful register call was given and returned
  req,         \* the requests in flight, one record per task
  nodeEnv      \* process.env.NODE_ENV, fixed when the process starts

vars == <<users, usersIdSeq, cart, cartIdSeq, issued, registered, req, nodeEnv>>
store == <<users, usersIdSeq, cart, cartIdSeq>>

----------------------------------------------------------------------------
(* Bounds of the model *)

MaxCourse == 2   \* course ids 1..MaxCourse
MaxCartId == 3   \* values the cart_items.id sequence may hand out
MaxUserId == 3   \* values the users.id sequence may hand out

\* the tasks that may be in flight together: the races are between two requests
Reqs == {1, 2}
Courses == 1..MaxCourse

----------------------------------------------------------------------------
(* Numbers as text: a row count reaches the service as a decimal string, *)
(* and parseInt reads ids and counts from strings.                       *)

DigitChars == <<"0", "1", "2", "3", "4", "5", "6", "7", "8", "9">>

RECURSIVE ToDecimal(_)
ToDecimal(n) ==
  IF n < 10 THEN <<DigitChars[n + 1]>>
  ELSE Append(ToDecimal(n \div 10), DigitChars[(n % 10) + 1])

DigitValue(ch) == CHOOSE d \in 0..9 : DigitChars[d + 1] = ch
IsDigit(ch) == \E d \in 0..9 : DigitChars[d + 1] = ch

NaN == -1

\* parseInt on a string of characters: the leading digits, NaN when there are none
RECURSIVE ParseDigits(_, _)
ParseDigits(s, acc) ==
  IF s = <<>> \/ ~IsDigit(Head(s)) THEN acc
  ELSE ParseDigits(Tail(s), acc * 10 + DigitValue(Head(s)))

ParseInt(s) == IF s = <<>> \/ ~IsDigit(Head(s)) THEN NaN ELSE ParseDigits(s, 0)

----------------------------------------------------------------------------
(* Strings that the code inspects character by character are sequences of  *)
(* one-character strings; the others are plain strings.                     *)

AdminEmail == <<"a", "@", "g", ".", "c">>
UserEmail == <<"u", "@", "g", ".", "c">>
NewEmail(i) == <<"n", ToDecimal(i)[1], "@", "g", ".", "c">>
BadEmail == <<"n", "@", "g">>
NoEmail == <<>>

SeedPassword == "seedpw1"
Passwords == {"secret1", "hunter22"}
ShortPassword == "short"

Roles == {"user", "admin"}

----------------------------------------------------------------------------
(* Password hashing: bcrypt.hash draws a salt and stores it with the digest *)
(* of salt and password; bcrypt.compare recomputes the digest with the      *)
(* stored salt.                                                             *)

Salts == {"s1", "s2"}

Digest(salt, password) == <<salt, password>>

BcryptHash(password, salt) == [salt |-> salt, digest |-> Digest(salt, password)]

BcryptCompare(password, hash) == Digest(hash.salt, password) = hash.digest

----------------------------------------------------------------------------
(* Token codec *)

NoToken == [userId |-> 0, email |-> NoEmail, role |-> "none"]

\* UserService.generateToken: the payload that is signed
GenerateToken(user) == [userId |-> user.id, email |-> user.email, role |-> user.role]

NoHeader == [scheme |-> "none", tok |-> NoToken, intact |-> FALSE, expired |-> FALSE]
BasicHeader == [scheme |-> "Basic", tok |-> NoToken, intact |-> FALSE, expired |-> FALSE]
Bearer(t, intact, expired) ==
  [scheme |-> "Bearer", tok |-> t, intact |-> intact, expired |-> expired]

\* authHeader && authHeader.startsWith('Bearer ')
HasBearer(h) == h.scheme = "Bearer"

\* jwt.verify(token, secret): the signature matches and the expiry has not passed
JwtVerifyOkAsNoExpiry(h) == h.intact
JwtVerifyOk(h) == h.intact /\ ~h.expired

----------------------------------------------------------------------------
(* Table cart_items and the statements the cart service runs on it *)

CartRow(id, u, k, b) == [id |-> id, user_id |-> u, course_id |-> k, bought |-> b]

\* UNIQUE(user_id, course_id): would inserting (u, k) break the constraint
UniqueViolationAsNoCheck(c, u, k) == FALSE
UniqueViolation(c, u, k) == \E x \in c : x.user_id = u /\ x.course_id = k

DuplicateKeyError == "duplicate key value violates unique constraint"
UndefinedRowError == "Cannot read properties of undefined"

\* SELECT id FROM cart_items WHERE user_id = $1 AND course_id = $2
SelectExistingItem(c, u, k) ==
  {[id |-> x.id] : x \in {y \in c : y.user_id = u /\ y.course_id = k}}

\* existingItem.rows[0].bought: a column the statement did not select is undefined
RowBought(row) == IF "bought" \in DOMAIN row THEN row.bought ELSE FALSE

\* the failure addToCart throws when the existence check finds a row
ExistingItemError(row) ==
  IF RowBought(row) THEN "You already bought it" ELSE "Course already in Cart"

\* INSERT INTO cart_items (user_id, course_id): bought takes its default
InsertCartItemAsBought(c, id, u, k) == c \cup {CartRow(id, u, k, TRUE)}
InsertCartItem(c, id, u, k) == c \cup {CartRow(id, u, k, FALSE)}

\* SELECT ... FROM cart_items ci WHERE ci.id = $1
SelectCartItemById(c, id) == {x \in c : x.id = id}

\* DELETE FROM cart_items WHERE user_id = $1 AND course_id = $2 AND bought = false
RemoveTargetsAsAnyRow(c, u, k) == {x \in c : x.user_id = u /\ x.course_id = k}
RemoveTargets(c, u, k) == {x \in c : x.user_id = u /\ x.course_id = k /\ ~x.bought}

\* clearCart, bought = true: UPDATE cart_items SET bought = true WHERE user_id = $1
ClearUpdateTargetsAsEveryUser(c, u) == c
ClearUpdateTargets(c, u) == {x \in c : x.user_id = u}
MarkBoughtAsToggle(c, u) ==
  {IF x \in ClearUpdateTargets(c, u) THEN [x EXCEPT !.bought = ~@] ELSE x : x \in c}
MarkBought(c, u) ==
  {IF x \in ClearUpdateTargets(c, u) THEN [x EXCEPT !.bought = TRUE] ELSE x : x \in c}

\* clearCart, bought = false: DELETE FROM cart_items WHERE user_id = $1 and bought = false
ClearDeleteTargetsAsAllRows(c, u) == {x \in c : x.user_id = u}
ClearDeleteTargets(c, u) == {x \in c : x.user_id = u /\ ~x.bought}

\* SELECT COUNT ... FROM cart_items WHERE user_id = $1 AND bought = false
CountedRowsAsAllRows(c, u) == {x \in c : x.user_id = u}
CountedRows(c, u) == {x \in c : x.user_id = u /\ ~x.bought}

\* SELECT id FROM cart_items WHERE user_id = $1 AND course_id = $2 AND bought = false
IsInCart(c, u, k) == {x \in c : x.user_id = u /\ x.course_id = k /\ ~x.bought} # {}

\* CartService.mapRowToCartItem
NoItem == [id |-> 0, userId |-> 0, courseId |-> 0]
MapRowToCartItem(row) == [id |-> row.id, userId |-> row.user_id, courseId |-> row.course_id]

----------------------------------------------------------------------------
(* Table users and the statements the auth service and the middleware run *)

UserRow(id, email, hash, role, active) ==
  [id |-> id, email |-> email, password |-> hash, role |-> role, is_active |-> active]

\* the two rows init.sql inserts, their password column holding a real hash
SeedUsers ==
  {UserRow(1, AdminEmail, BcryptHash(SeedPassword, "s1"), "admin", TRUE),
   UserRow(2, UserEmail, BcryptHash(SeedPassword, "s1"), "user", TRUE)}

\* email VARCHAR(255) UNIQUE NOT NULL
EmailUniqueViolationAsNoCheck(us, email) == FALSE
EmailUniqueViolation(us, email) == \E u \in us : u.email = email

\* SELECT id FROM users WHERE email = $1
SelectUserByEmailAsActiveOnly(us, email) == {u \in us : u.email = email /\ u.is_active}
SelectUserByEmail(us, email) == {u \in us : u.email = email}

\* SELECT * FROM users WHERE email = $1 AND is_active = true
SelectActiveByEmailAsAnyRow(us, email) == {u \in us : u.email = email}
SelectActiveByEmail(us, email) == {u \in us : u.email = email /\ u.is_active}

\* SELECT ... FROM users WHERE id = $1
SelectUserById(us, id) == {u \in us : u.id = id}

\* UPDATE users SET is_active = false WHERE id = $2
DeactivateRows(us, id) ==
  {IF u.id = id THEN [u EXCEPT !.is_active = FALSE] ELSE u : u \in us}

\* UPDATE users SET role = $1 WHERE id = $3
UpdateRoleRows(us, id, role) ==
  {IF u.id = id THEN [u EXCEPT !.role = role] ELSE u : u \in us}

\* register: only admins can create admin users
RegisterRoleAsAsked(asked, requestingUser) == IF asked = "admin" THEN "admin" ELSE "user"
RegisterRole(asked, requestingUser) ==
  IF asked = "admin" /\ requestingUser.role = "admin" THEN "admin" ELSE "user"

\* UserService.mapRowToUser
NoUserOut == [id |-> 0, email |-> NoEmail, role |-> "none", isActive |-> FALSE]
MapRowToUser(row) ==
  [id |-> row.id, email |-> row.email, role |-> row.role, isActive |-> row.is_active]

\* req.user as the middleware sets it
NoUser == [id |-> 0, email |-> NoEmail, role |-> "none"]
AuthUser(row) == [id |-> row.id, email |-> row.email, role |-> row.role]

\* the row check of authenticate: result.rows.length === 0 || !result.rows[0].is_active
AuthRowsRejectedAsNoActiveCheck(rows) == rows = {}
AuthRowsRejected(rows) == rows = {} \/ ~(CHOOSE u \in rows : TRUE).is_active

\* /^[^\s@]+@[^\s@]+\.[^\s@]+$/
PlainChars(s, from, to) == \A i \in from..to : s[i] \notin {"@", " "}
EmailRegexTest(s) ==
  \E at \in 1..Len(s) : \E dot \in 1..Len(s) :
    /\ s[at] = "@" /\ s[dot] = "."
    /\ 1 < at /\ at + 1 < dot /\ dot < Len(s)
    /\ PlainChars(s, 1, at - 1) /\ PlainChars(s, at + 1, dot - 1)
    /\ PlainChars(s, dot + 1, Len(s))

----------------------------------------------------------------------------
(* A request: its position, what it was sent with, what the middleware and *)
(* the service left in it, and the response.                               *)

Idle ==
  [pc |-> "idle", route |-> "none", hdr |-> NoHeader,
   user |-> NoUser, handled |-> FALSE, stale |-> FALSE,
   courseId |-> <<>>, bought |-> "", id |-> <<>>, role |-> "none",
   email |-> NoEmail, password |-> "", hash |-> BcryptHash("", "s1"),
   found |-> "none", rejected |-> FALSE, loc |-> 0, items |-> {},
   err |-> "", item |-> NoItem, ok |-> FALSE, num |-> 0,
   ruser |-> NoUserOut, token |-> NoToken,
   allowed |-> {}, direct |-> FALSE,
   acquired |-> 0, released |-> 0, mwSent |-> 0, nextCalls |-> 0,
   fault |-> "", error |-> "", list |-> {},
   status |-> 0, message |-> ""]

CartRoutes == {"cartGet", "cartCount", "cartAdd", "cartRemove", "cartClear"}
AdminRoutes == {"users", "role", "deactivate"}

\* the middleware each route is mounted behind
Middleware(route) ==
  IF route \in CartRoutes \cup {"profile"} THEN "authenticate"
  ELSE IF route \in AdminRoutes THEN "requireAdmin"
  ELSE IF route = "guarded" THEN "requireRole"
  ELSE "none"

\* res.status(s).json({message: m})
Respond(q, s, m) == [q EXCEPT !.pc = "done", !.status = s, !.message = m]

\* a service call threw e, and the controller's catch answers with status s;
\* the auth controllers repeat err.message in the body's error field
Fail(q, e, s) ==
  [q EXCEPT !.pc = "done", !.err = e, !.status = s, !.message = e,
            !.error = IF q.route \in CartRoutes THEN "" ELSE e]

\* a response sent by the middleware
Reject(q, s, m) == [Respond(q, s, m) EXCEPT !.mwSent = @ + 1]

\* await this.db.connect()
Connect(q) == [q EXCEPT !.acquired = @ + 1]

\* client.release()
Release(q) == [q EXCEPT !.released = @ + 1]

\* the finally block of a service method: it runs when the method returns or
\* throws, which is when the controller answers
FinallyAsOnSuccessOnly(q) == IF q.pc = "done" /\ q.err = "" THEN Release(q) ELSE q
Finally(q) == IF q.pc = "done" THEN Release(q) ELSE q

\* req.query.bought == 'true'
BoughtFlag(q) == q.bought = "true"

\* CartController.addToCart, its catch block
AddToCartErrorStatus(m) ==
  IF m = "Course not found" THEN 404
  ELSE IF m = "Course already in cart" THEN 409
  ELSE 500

----------------------------------------------------------------------------
(* The synchronous start of each controller, up to its first statement *)

CartControllerEnter(q) ==
  IF q.user = NoUser THEN Respond(q, 401, "User not authenticated")
  ELSE IF q.route \in {"cartAdd", "cartRemove"}
          /\ (q.courseId = <<>> \/ ParseInt(q.courseId) = NaN)
    THEN Respond(q, 400, "Valid course ID is required")
  ELSE [q EXCEPT !.pc = CASE q.route = "cartAdd" -> "addSelect"
                          [] q.route = "cartRemove" -> "removeDelete"
                          [] q.route = "cartGet" -> "getSelect"
                          [] q.route = "cartClear" -> "clearExec"
                          [] OTHER -> "countSelect"]

\* AuthController.register
RegisterEnter(q) ==
  IF q.email = NoEmail \/ q.password = ""
    THEN Respond(q, 400, "Email and password are required")
  ELSE IF ~EmailRegexTest(q.email) THEN Respond(q, 400, "Invalid email format")
  ELSE IF Len(q.password) < 6
    THEN Respond(q, 400, "Password must be at least 6 characters long")
  ELSE [q EXCEPT !.pc = "regSelect"]

\* AuthController.login
LoginEnter(q) ==
  IF q.email = NoEmail \/ q.password = ""
    THEN Respond(q, 400, "Email and password are required")
  ELSE [q EXCEPT !.pc = "loginSelect"]

\* AuthController.getProfile
ProfileEnter(q) ==
  IF q.user = NoUser THEN Respond(q, 401, "User not authenticated")
  ELSE [q EXCEPT !.pc = "profileSelect"]

\* UserService.deactivateUser up to its statement: only admins can deactivate
DeactivateServiceEnterAsNoRoleCheck(q) == [q EXCEPT !.pc = "deactUpdate"]
DeactivateServiceEnter(q) ==
  IF q.user.role # "admin" THEN Fail(q, "Access denied", 403)
  ELSE [q EXCEPT !.pc = "deactUpdate"]

\* AuthController.deactivateUser, then the service call
DeactivateEnterAsNoSelfCheck(q) ==
  IF q.user = NoUser THEN Respond(q, 401, "User not authenticated")
  ELSE IF ParseInt(q.id) = NaN THEN Respond(q, 400, "Invalid user ID")
  ELSE DeactivateServiceEnter(q)
DeactivateEnter(q) ==
  IF q.user = NoUser THEN Respond(q, 401, "User not authenticated")
  ELSE IF ParseInt(q.id) = NaN THEN Respond(q, 400, "Invalid user ID")
  ELSE IF ParseInt(q.id) = q.user.id
    THEN Respond(q, 400, "Cannot deactivate your own account")
  ELSE DeactivateServiceEnter(q)

\* UserService.updateUserRole up to its statement: only admins can change roles
UpdateRoleServiceEnter(q) ==
  IF q.user.role # "admin" THEN Fail(q, "Access denied", 403)
  ELSE [q EXCEPT !.pc = "roleUpdate"]

\* AuthController.updateUserRole, then the service call
UpdateRoleEnter(q) ==
  IF q.user = NoUser THEN Respond(q, 401, "User not authenticated")
  ELSE IF ParseInt(q.id) = NaN THEN Respond(q, 400, "Invalid user ID")
  ELSE IF q.role \notin Roles
    THEN Respond(q, 400, "Valid role is required (user or admin)")
  ELSE UpdateRoleServiceEnter(q)

\* UserService.getAllUsers up to its statement: only admins can view all users
GetAllUsersServiceEnter(q) ==
  IF q.user.role # "admin" THEN Fail(q, "Access denied", 403)
  ELSE [q EXCEPT !.pc = "usersSelect"]

\* AuthController.getAllUsers, then the service call
GetAllUsersEnter(q) ==
  IF q.user = NoUser THEN Respond(q, 401, "User not authenticated")
  ELSE GetAllUsersServiceEnter(q)

\* the handler of a route mounted behind requireRole(roles): it answers
GuardedEnter(q) == Respond(q, 200, "handled")

\* the route's handler is invoked
EnterController(q) ==
  LET h == [q EXCEPT !.handled = TRUE, !.nextCalls = @ + 1] IN
  CASE h.route \in CartRoutes -> CartControllerEnter(h)
    [] h.route = "register" -> RegisterEnter(h)
    [] h.route = "login" -> LoginEnter(h)
    [] h.route = "profile" -> ProfileEnter(h)
    [] h.route = "role" -> UpdateRoleEnter(h)
    [] h.route = "users" -> GetAllUsersEnter(h)
    [] h.route = "guarded" -> GuardedEnter(h)
    [] OTHER -> DeactivateEnter(h)

\* the callback requireAdmin hands to authenticate
RequireAdminNextAsAnyRole(q) == IF q.user = NoUser THEN q ELSE EnterController(q)
RequireAdminNext(q) ==
  IF q.user = NoUser THEN q
  ELSE IF q.user.role # "admin" THEN Reject(q, 403, "Admin access required")
  ELSE EnterController(q)

\* the callback requireRole(roles) hands to authenticate
RequireRoleNextAsNoReturn(q) ==
  IF q.user = NoUser THEN q
  ELSE IF q.user.role \notin q.allowed
    THEN EnterController(Reject(q, 403, "Access denied. Required roles"))
  ELSE EnterController(q)
RequireRoleNext(q) ==
  IF q.user = NoUser THEN q
  ELSE IF q.user.role \notin q.allowed
    THEN Reject(q, 403, "Access denied. Required roles")
  ELSE EnterController(q)

\* authenticate, from the header check to the await of the store
AuthenticateEnter(q) ==
  IF ~HasBearer(q.hdr) THEN Reject(q, 401, "Access token required")
  ELSE IF ~JwtVerifyOk(q.hdr) THEN Reject(q, 401, "Invalid token")
  ELSE [q EXCEPT !.pc = "authQuery"]

\* a request reaches its route
Arrive(q) ==
  IF Middleware(q.route) = "none" THEN EnterController(q) ELSE AuthenticateEnter(q)

----------------------------------------------------------------------------
(* What a client may send *)

CourseInputs == {ToDecimal(k) : k \in Courses} \cup {<<"x">>, <<>>}
IdInputs == {ToDecimal(i) : i \in 1..MaxUserId} \cup {<<"x">>}
BoughtInputs == {"true", "false"}
NewEmails == {NewEmail(i) : i \in 1..(MaxUserId - 2)}
RegisterEmails == NewEmails \cup {UserEmail, BadEmail}
LoginEmails == NewEmails \cup {AdminEmail, UserEmail}

Inputs(route) ==
  CASE route \in {"cartAdd", "cartRemove"} ->
         {[Idle EXCEPT !.courseId = k] : k \in CourseInputs}
    [] route \in {"cartGet", "cartClear"} ->
         {[Idle EXCEPT !.bought = b] : b \in BoughtInputs}
    [] route = "register" ->
         {[Idle EXCEPT !.email = e, !.password = p, !.role = ro] :
            e \in RegisterEmails, p \in Passwords \cup {ShortPassword},
            ro \in Roles \cup {"none"}}
    [] route = "login" ->
         {[Idle EXCEPT !.email = e, !.password = p] :
            e \in LoginEmails, p \in Passwords \cup {SeedPassword}}
    [] route = "deactivate" -> {[Idle EXCEPT !.id = i] : i \in IdInputs}
    [] route = "role" ->
         {[Idle EXCEPT !.id = i, !.role = ro] :
            i \in IdInputs, ro \in Roles \cup {"none"}}
    [] route = "guarded" -> {[Idle EXCEPT !.allowed = a] : a \in SUBSET Roles}
    [] OTHER -> {Idle}

\* every request a client can send to the given routes
Requests(routes) ==
  UNION {{[i EXCEPT !.route = route] : i \in Inputs(route)} : route \in routes}

\* the Authorization headers a client can build from the tokens handed out
ValidHeaders == {Bearer(t, TRUE, FALSE) : t \in issued}
AllHeaders ==
  ValidHeaders \cup {Bearer(t, TRUE, TRUE) : t \in issued}
    \cup {Bearer(t, FALSE, FALSE) : t \in issued} \cup {NoHeader, BasicHeader}

\* history: the token's user had already been deactivated when the request started
StaleAtStart(h) ==
  HasBearer(h) /\ JwtVerifyOk(h)
    /\ \E u \in users : u.id = h.tok.userId /\ ~u.is_active

\* the sequences are bounded: a request that may draw from one starts only
\* while a value is left for it; users_id_seq has one value more than the ids
\* the table can hold, for the insert that the email constraint rejects
PendingOn(route) == Cardinality({r \in Reqs : req[r].route = route /\ req[r].pc # "done"})
MayStart(route) ==
  /\ route = "cartAdd" => cartIdSeq + PendingOn("cartAdd") <= MaxCartId
  /\ route = "register" => usersIdSeq + PendingOn("register") <= MaxUserId + 1

\* a request arrives and takes the lowest free task; a route without middleware
\* never reads the header
Begin(r, requests, headers) ==
  /\ req[r].pc = "idle"
  /\ \A o \in Reqs : o < r => req[o].pc # "idle"
  /\ \E i \in requests :
     \E h \in (IF Middleware(i.route) = "none" THEN {NoHeader} ELSE headers) :
       /\ MayStart(i.route)
       /\ req' = [req EXCEPT ![r] =
            Arrive([i EXCEPT !.hdr = h, !.stale = StaleAtStart(h)])]
  /\ UNCHANGED <<store, issued, registered, nodeEnv>>

\* UserService called by a caller inside the process, which passes the
\* requesting identity itself
ServiceEnter(q) ==
  CASE q.route = "register" -> [q EXCEPT !.pc = "regSelect"]
    [] q.route = "role" -> UpdateRoleServiceEnter(q)
    [] q.route = "users" -> GetAllUsersServiceEnter(q)
    [] OTHER -> DeactivateServiceEnter(q)

\* the identities a caller can pass: those authenticate would build from the
\* rows, and for register, whose parameter is optional, none
Identities(route) ==
  {AuthUser(u) : u \in users} \cup (IF route = "register" THEN {NoUser} ELSE {})

Call(r, calls) ==
  /\ req[r].pc = "idle"
  /\ \A o \in Reqs : o < r => req[o].pc # "idle"
  /\ \E i \in calls : \E a \in Identities(i.route) :
       /\ MayStart(i.route)
       /\ req' = [req EXCEPT ![r] =
            ServiceEnter([i EXCEPT !.user = a, !.direct = TRUE])]
  /\ UNCHANGED <<store, issued, registered, nodeEnv>>

\* the response has been sent and the task ends
Finish(r) ==
  /\ req[r].pc = "done"
  /\ req' = [req EXCEPT ![r] = Idle]
  /\ UNCHANGED <<store, issued, registered, nodeEnv>>

----------------------------------------------------------------------------
(* AuthMiddleware.authenticate: the store lookup and what follows it *)

\* req.user = {id: user.id, email: user.email, role: user.role}, user being the
\* row just read and not the decoded token
ReqUserAsTokenClaims(row, tok) ==
  [id |-> tok.userId, email |-> tok.email, role |-> tok.role]
ReqUser(row, tok) == AuthUser(row)

AuthLookup(q, us) ==
  LET rows == SelectUserById(us, q.hdr.tok.userId) IN
  IF AuthRowsRejected(rows) THEN Reject(q, 401, "Invalid or expired token")
  ELSE LET a == [q EXCEPT !.user = ReqUser(CHOOSE u \in rows : TRUE, q.hdr.tok)] IN
       IF Middleware(q.route) = "requireAdmin" THEN RequireAdminNext(a)
       ELSE IF Middleware(q.route) = "requireRole" THEN RequireRoleNext(a)
       ELSE EnterController(a)

AuthQuery(r) ==
  /\ req[r].pc = "authQuery"
  /\ req' = [req EXCEPT ![r] = Release(AuthLookup(Connect(req[r]), users))]
  /\ UNCHANGED <<store, issued, registered, nodeEnv>>

----------------------------------------------------------------------------
(* CartService, one action per statement, with the controller's answer *)

\* history: what the store held for (u, k) when the existence check ran
FoundAs(c, u, k) ==
  IF \E x \in c : x.user_id = u /\ x.course_id = k /\ x.bought THEN "bought"
  ELSE IF \E x \in c : x.user_id = u /\ x.course_id = k THEN "unbought"
  ELSE "none"

\* addToCart: the existence check
AddSelect(r) ==
  /\ req[r].pc = "addSelect"
  /\ LET q == req[r]
         u == q.user.id
         k == ParseInt(q.courseId)
         rows == SelectExistingItem(cart, u, k)
         f == Connect([q EXCEPT !.found = FoundAs(cart, u, k)])
     IN req' = [req EXCEPT ![r] = Finally(
          IF Cardinality(rows) > 0
            THEN LET e == ExistingItemError(CHOOSE x \in rows : TRUE)
                 IN Fail(f, e, AddToCartErrorStatus(e))
          ELSE [f EXCEPT !.pc = "addInsert"])]
  /\ UNCHANGED <<store, issued, registered, nodeEnv>>

\* addToCart: the insert, which the uniqueness constraint may reject
AddInsert(r) ==
  /\ req[r].pc = "addInsert"
  /\ LET q == req[r]
         u == q.user.id
         k == ParseInt(q.courseId)
     IN IF UniqueViolation(cart, u, k)
          THEN /\ cart' = cart
               /\ req' = [req EXCEPT ![r] = Finally(
                    Fail([q EXCEPT !.rejected = TRUE], DuplicateKeyError,
                         AddToCartErrorStatus(DuplicateKeyError)))]
          ELSE /\ cart' = InsertCartItem(cart, cartIdSeq, u, k)
               /\ req' = [req EXCEPT ![r] =
                    [q EXCEPT !.pc = "addReselect", !.loc = cartIdSeq]]
  /\ cartIdSeq' = cartIdSeq + 1
  /\ UNCHANGED <<users, usersIdSeq, issued, registered, nodeEnv>>

\* addToCart: reading the inserted row back, and the 201
AddReselect(r) ==
  /\ req[r].pc = "addReselect"
  /\ LET q == req[r]
         rows == SelectCartItemById(cart, q.loc)
     IN req' = [req EXCEPT ![r] = Finally(
          IF rows = {} THEN Fail(q, UndefinedRowError, AddToCartErrorStatus(UndefinedRowError))
          ELSE Respond([q EXCEPT !.item = MapRowToCartItem(CHOOSE x \in rows : TRUE)],
                       201, "Course added to cart successfully"))]
  /\ UNCHANGED <<store, issued, registered, nodeEnv>>

\* removeFromCart
RemoveDelete(r) ==
  /\ req[r].pc = "removeDelete"
  /\ LET q == Connect(req[r])
         gone == RemoveTargets(cart, q.user.id, ParseInt(q.courseId))
         removed == Cardinality(gone) > 0
     IN /\ cart' = cart \ gone
        /\ req' = [req EXCEPT ![r] = Finally(
             IF ~removed THEN Respond([q EXCEPT !.ok = FALSE], 404, "Course not found in cart")
             ELSE Respond([q EXCEPT !.ok = TRUE], 200, "Course removed from cart successfully"))]
  /\ UNCHANGED <<users, usersIdSeq, cartIdSeq, issued, registered, nodeEnv>>

\* clearCart
ClearExec(r) ==
  /\ req[r].pc = "clearExec"
  /\ LET q == Connect(req[r])
         u == q.user.id
         hit == IF BoughtFlag(q) THEN ClearUpdateTargets(cart, u)
                ELSE ClearDeleteTargets(cart, u)
         cleared == Cardinality(hit) > 0
     IN /\ cart' = IF BoughtFlag(q) THEN MarkBought(cart, u) ELSE cart \ hit
        /\ req' = [req EXCEPT ![r] = Finally(
             IF ~cleared THEN Respond([q EXCEPT !.ok = FALSE], 404, "Cart is already empty")
             ELSE Respond([q EXCEPT !.ok = TRUE], 200, "Cart cleared successfully"))]
  /\ UNCHANGED <<users, usersIdSeq, cartIdSeq, issued, registered, nodeEnv>>

\* getCartItemCount
CountSelect(r) ==
  /\ req[r].pc = "countSelect"
  /\ LET q == Connect(req[r])
         count == ToDecimal(Cardinality(CountedRows(cart, q.user.id)))
     IN req' = [req EXCEPT ![r] = Finally(
          Respond([q EXCEPT !.num = ParseInt(count)], 200,
                  "Cart item count retrieved successfully"))]
  /\ UNCHANGED <<store, issued, registered, nodeEnv>>

\* getItems: WHERE ci.user_id = $1 AND ci.bought = $2
GetSelect(r) ==
  /\ req[r].pc = "getSelect"
  /\ LET q == Connect(req[r])
         rows == {x \in cart : x.user_id = q.user.id /\ x.bought = BoughtFlag(q)}
     IN req' = [req EXCEPT ![r] = Finally(
          Respond([q EXCEPT !.items = {MapRowToCartItem(x) : x \in rows}], 200,
                  "Cart retrieved successfully"))]
  /\ UNCHANGED <<store, issued, registered, nodeEnv>>

----------------------------------------------------------------------------
(* UserService, one action per statement, with the controller's answer *)

\* register: the existence check, then bcrypt.hash
RegSelect(r) ==
  /\ req[r].pc = "regSelect"
  /\ LET q == Connect(req[r])
         rows == SelectUserByEmail(users, q.email)
     IN IF Cardinality(rows) > 0
          THEN req' = [req EXCEPT ![r] =
                 Finally(Fail(q, "User already exists with this email", 400))]
          ELSE \E salt \in Salts :
                 req' = [req EXCEPT ![r] =
                   [q EXCEPT !.pc = "regInsert", !.hash = BcryptHash(q.password, salt)]]
  /\ UNCHANGED <<store, issued, registered, nodeEnv>>

\* register: the insert, the token and the 201
RegInsert(r) ==
  /\ req[r].pc = "regInsert"
  /\ LET q == req[r]
         row == UserRow(usersIdSeq, q.email, q.hash, RegisterRole(q.role, q.user), TRUE)
         user == MapRowToUser(row)
     IN IF EmailUniqueViolation(users, q.email)
          THEN /\ req' = [req EXCEPT ![r] = Finally(Fail(q, DuplicateKeyError, 400))]
               /\ UNCHANGED <<users, issued, registered>>
          ELSE /\ users' = users \cup {row}
               /\ issued' = issued \cup {GenerateToken(user)}
               /\ registered' = registered \cup
                    {[email |-> q.email, password |-> q.password, id |-> user.id]}
               /\ req' = [req EXCEPT ![r] = Finally(
                    Respond([q EXCEPT !.ruser = user, !.token = GenerateToken(user)],
                            201, "User registered successfully"))]
  /\ usersIdSeq' = usersIdSeq + 1
  /\ UNCHANGED <<cart, cartIdSeq, nodeEnv>>

\* login's password check on the row it read
LoginPasswordOkAsFirstSalt(password, row) ==
  BcryptCompare(password, [row.password EXCEPT !.salt = "s1"])
LoginPasswordOk(password, row) == BcryptCompare(password, row.password)

\* login
LoginSelect(r) ==
  /\ req[r].pc = "loginSelect"
  /\ LET q == Connect(req[r])
         rows == SelectActiveByEmail(users, q.email)
     IN IF rows = {}
          THEN /\ req' = [req EXCEPT ![r] = Finally(Fail(q, "User not exist", 401))]
               /\ issued' = issued
          ELSE LET row == CHOOSE u \in rows : TRUE
                   user == MapRowToUser(row)
               IN IF ~LoginPasswordOk(q.password, row)
                    THEN /\ req' = [req EXCEPT ![r] =
                              Finally(Fail(q, "Password is invalid", 401))]
                         /\ issued' = issued
                    ELSE /\ req' = [req EXCEPT ![r] = Finally(
                              Respond([q EXCEPT !.ruser = user, !.token = GenerateToken(user)],
                                      200, "Login successful"))]
                         /\ issued' = issued \cup {GenerateToken(user)}
  /\ UNCHANGED <<store, registered, nodeEnv>>

\* getProfile: getUserById
ProfileSelect(r) ==
  /\ req[r].pc = "profileSelect"
  /\ LET q == Connect(req[r])
         rows == SelectUserById(users, q.user.id)
     IN req' = [req EXCEPT ![r] = Finally(
          IF rows = {} THEN Respond(q, 404, "User not found")
          ELSE Respond([q EXCEPT !.ruser = MapRowToUser(CHOOSE u \in rows : TRUE)],
                       200, "Profile retrieved successfully"))]
  /\ UNCHANGED <<store, issued, registered, nodeEnv>>

\* deactivateUser: the update and the controller's answer
DeactUpdate(r) ==
  /\ req[r].pc = "deactUpdate"
  /\ LET q == Connect(req[r])
         id == ParseInt(q.id)
         success == Cardinality(SelectUserById(users, id)) > 0
     IN /\ users' = DeactivateRows(users, id)
        /\ req' = [req EXCEPT ![r] = Finally(
             IF ~success THEN Respond([q EXCEPT !.ok = FALSE], 404, "User not found")
             ELSE Respond([q EXCEPT !.ok = TRUE], 200, "User deactivated successfully"))]
  /\ UNCHANGED <<usersIdSeq, cart, cartIdSeq, issued, registered, nodeEnv>>

\* updateUserRole: the update with RETURNING, and the controller's answer
RoleUpdate(r) ==
  /\ req[r].pc = "roleUpdate"
  /\ LET q == Connect(req[r])
         id == ParseInt(q.id)
         after == UpdateRoleRows(users, id, q.role)
         rows == SelectUserById(after, id)
     IN /\ users' = after
        /\ req' = [req EXCEPT ![r] = Finally(
             IF Cardinality(rows) = 0 THEN Fail(q, "User not found", 403)
             ELSE Respond([q EXCEPT !.ruser = MapRowToUser(CHOOSE u \in rows : TRUE)],
                          200, "User role updated successfully"))]
  /\ UNCHANGED <<usersIdSeq, cart, cartIdSeq, issued, registered, nodeEnv>>

\* getAllUsers: the select, whose ORDER BY the set of rows leaves out
UsersSelect(r) ==
  /\ req[r].pc = "usersSelect"
  /\ LET q == Connect(req[r])
     IN req' = [req EXCEPT ![r] = Finally(
          Respond([q EXCEPT !.list = {MapRowToUser(u) : u \in users}], 200,
                  "Users retrieved successfully"))]
  /\ UNCHANGED <<store, issued, registered, nodeEnv>>

----------------------------------------------------------------------------
(* A store call that fails: the pool hands out no connection, or the driver *)
(* rejects the statement.  The statement is then not applied.               *)

ConnectError == "timeout exceeded when trying to connect"
DriverError == "Connection terminated unexpectedly"
StoreErrors == {ConnectError, DriverError}

StatementPcs ==
  {"authQuery", "addSelect", "addInsert", "addReselect", "removeDelete",
   "clearExec", "countSelect", "getSelect", "regSelect", "regInsert",
   "loginSelect", "profileSelect", "deactUpdate", "roleUpdate", "usersSelect"}

\* the request holds a connection it has not released
Holding(q) == q.acquired > q.released

\* the catch block that receives the error e of the pending store call:
\* authenticate's inner catch, or the catch of the route's controller
CatchStoreError(q, e) ==
  IF q.pc = "authQuery" THEN Reject(q, 401, "Invalid token")
  ELSE CASE q.route = "cartAdd" -> Fail(q, e, AddToCartErrorStatus(e))
         [] q.route \in CartRoutes \ {"cartAdd"} -> Fail(q, e, 500)
         [] q.route = "register" -> Fail(q, e, 400)
         [] q.route = "login" -> Fail(q, e, 401)
         [] q.route = "profile" ->
              [Fail(q, e, 500) EXCEPT !.message = "Failed to retrieve profile"]
         [] OTHER -> Fail(q, e, 403)

\* the pending store call of request r throws: db.connect() when the request
\* holds no connection yet, or client.query() on the connection it holds
StoreFails(r) ==
  /\ req[r].pc \in StatementPcs
  /\ LET q == req[r] IN
     \E e \in (IF Holding(q) THEN {DriverError} ELSE StoreErrors) :
       LET c == IF Holding(q) \/ e = ConnectError THEN q ELSE Connect(q)
           a == CatchStoreError([c EXCEPT !.fault = q.pc], e)
       IN req' = [req EXCEPT ![r] =
            IF e = ConnectError THEN a
            ELSE IF q.pc = "authQuery" THEN Release(a)
            ELSE Finally(a)]
  /\ UNCHANGED <<store, issued, registered, nodeEnv>>

----------------------------------------------------------------------------
(* Specifications *)

TypeOK ==
  /\ usersIdSeq \in 1..(MaxUserId + 2)
  /\ \A u \in users : u.id \in 1..(MaxUserId + 1)
  /\ cartIdSeq \in 1..(MaxCartId + 1)
  /\ \A r \in Reqs : req[r].status \in {0, 200, 201, 400, 401, 403, 404, 409, 500}

\* the store as init.sql leaves it, nobody logged in; the process runs in
\* production mode (no handler of the services, controllers or middleware
\* reads NODE_ENV, InitFault starts it in either mode)
Init ==
  /\ users = SeedUsers
  /\ usersIdSeq = 3
  /\ cart = {}
  /\ cartIdSeq = 1
  /\ issued = {}
  /\ registered = {}
  /\ req = [r \in Reqs |-> Idle]
  /\ nodeEnv = "production"

\* the same store after both seeded users have logged in
InitLoggedIn ==
  /\ users = SeedUsers
  /\ usersIdSeq = 3
  /\ cart = {}
  /\ cartIdSeq = 1
  /\ issued = {GenerateToken(MapRowToUser(u)) : u \in SeedUsers}
  /\ registered = {}
  /\ req = [r \in Reqs |-> Idle]
  /\ nodeEnv = "production"

CartStep(r) ==
  \/ AuthQuery(r)
  \/ AddSelect(r)
  \/ AddInsert(r)
  \/ AddReselect(r)
  \/ RemoveDelete(r)
  \/ ClearExec(r)
  \/ CountSelect(r)
  \/ GetSelect(r)
  \/ Finish(r)

\* what the interleaved cart requests send: the three calls that write
ConcCartRequests ==
  {[Idle EXCEPT !.route = ro, !.courseId = ToDecimal(k)] :
     ro \in {"cartAdd", "cartRemove"}, k \in Courses}
    \cup {[Idle EXCEPT !.route = "cartClear", !.bought = b] : b \in BoughtInputs}

CartWriteStep(r) ==
  \/ AuthQuery(r)
  \/ AddSelect(r)
  \/ AddInsert(r)
  \/ AddReselect(r)
  \/ RemoveDelete(r)
  \/ ClearExec(r)
  \/ Finish(r)

\* the header of the seeded user, whose requests race each other
RaceHeaders == {h \in ValidHeaders : h.tok.userId = 2}

\* cart requests of one logged-in user, interleaved at every statement
NextCart ==
  \E r \in Reqs :
    \/ Begin(r, ConcCartRequests, RaceHeaders)
    \/ CartWriteStep(r)

SpecCart == InitLoggedIn /\ [][NextCart]_vars

\* every cart request, one call at a time
NextCartSeq ==
  \/ Begin(1, Requests(CartRoutes), ValidHeaders)
  \/ CartStep(1)

SpecCartSeq == InitLoggedIn /\ [][NextCartSeq]_vars

AuthStep(r) ==
  \/ AuthQuery(r)
  \/ RegSelect(r)
  \/ RegInsert(r)
  \/ LoginSelect(r)
  \/ ProfileSelect(r)
  \/ DeactUpdate(r)
  \/ Finish(r)

AuthRoutes == {"register", "login", "profile", "deactivate"}

\* what the interleaved account requests send
ConcAuthRequests ==
  {[Idle EXCEPT !.route = "register", !.email = e, !.password = "secret1"] : e \in NewEmails}
    \cup {[Idle EXCEPT !.route = "login", !.email = e, !.password = p] :
            e \in NewEmails \cup {UserEmail}, p \in {"secret1", SeedPassword}}
    \cup {[Idle EXCEPT !.route = "profile"]}
    \cup {[Idle EXCEPT !.route = "deactivate", !.id = ToDecimal(i)] : i \in 1..MaxUserId}

\* account requests, interleaved at every statement
NextAuth ==
  \E r \in Reqs :
    \/ Begin(r, ConcAuthRequests, ValidHeaders \cup {NoHeader})
    \/ AuthStep(r)

SpecAuth == InitLoggedIn /\ [][NextAuth]_vars

\* every account request, one call at a time, from the store as installed
NextAuthSeq ==
  \/ Begin(1, Requests(AuthRoutes), AllHeaders)
  \/ AuthStep(1)

SpecAuthSeq == Init /\ [][NextAuthSeq]_vars

AdminStep(r) ==
  \/ AuthQuery(r)
  \/ ProfileSelect(r)
  \/ DeactUpdate(r)
  \/ RoleUpdate(r)
  \/ Finish(r)

GuardedRoutes == {"profile", "deactivate", "role", "guarded"}

\* every request to a route behind the middleware, one call at a time
NextAdminSeq ==
  \/ Begin(1, Requests(GuardedRoutes), AllHeaders)
  \/ AdminStep(1)

SpecAdminSeq == InitLoggedIn /\ [][NextAdminSeq]_vars

\* what the interleaved administration requests send
ConcAdminRequests ==
  {[Idle EXCEPT !.route = "role", !.id = ToDecimal(i), !.role = ro] :
     i \in 1..MaxUserId, ro \in Roles}
    \cup {[Idle EXCEPT !.route = "deactivate", !.id = ToDecimal(i)] : i \in 1..MaxUserId}
    \cup {[Idle EXCEPT !.route = "profile"]}
    \cup {[Idle EXCEPT !.route = "guarded", !.allowed = {ro}] : ro \in Roles}

\* administration requests, interleaved at every statement
NextAdmin ==
  \E r \in Reqs :
    \/ Begin(r, ConcAdminRequests, ValidHeaders)
    \/ AdminStep(r)

SpecAdmin == InitLoggedIn /\ [][NextAdmin]_vars

ServiceStep(r) ==
  \/ AuthQuery(r)
  \/ RegSelect(r)
  \/ RegInsert(r)
  \/ DeactUpdate(r)
  \/ RoleUpdate(r)
  \/ UsersSelect(r)
  \/ Finish(r)

\* the calls a caller inside the process makes: userId is a number
ServiceCalls ==
  {[Idle EXCEPT !.route = "register", !.email = e, !.password = "secret1", !.role = ro] :
     e \in NewEmails, ro \in Roles \cup {"none"}}
    \cup {[Idle EXCEPT !.route = "deactivate", !.id = ToDecimal(i)] : i \in 1..MaxUserId}
    \cup {[Idle EXCEPT !.route = "role", !.id = ToDecimal(i), !.role = "user"] :
            i \in 1..MaxUserId}
    \cup {[Idle EXCEPT !.route = "users"]}

\* the UserService methods reached by direct call, and deactivateUser over
\* HTTP, one call at a time
NextService ==
  \/ Begin(1, Requests({"deactivate"}), ValidHeaders)
  \/ Call(1, ServiceCalls)
  \/ ServiceStep(1)

SpecService == InitLoggedIn /\ [][NextService]_vars

ApiStep(r) ==
  \/ AuthQuery(r)
  \/ RegSelect(r)
  \/ RegInsert(r)
  \/ LoginSelect(r)
  \/ RoleUpdate(r)
  \/ DeactUpdate(r)
  \/ Finish(r)

\* what the account API is sent: registrations asking for every role, logins
\* of the seeded accounts, role changes and deactivations
ApiRequests ==
  {[Idle EXCEPT !.route = "register", !.email = e, !.password = "secret1", !.role = ro] :
     e \in NewEmails, ro \in Roles \cup {"none"}}
    \cup {[Idle EXCEPT !.route = "login", !.email = e, !.password = SeedPassword] :
            e \in {AdminEmail, UserEmail}}
    \cup {[Idle EXCEPT !.route = "role", !.id = ToDecimal(i), !.role = ro] :
            i \in 1..MaxUserId, ro \in Roles}
    \cup {[Idle EXCEPT !.route = "deactivate", !.id = ToDecimal(i)] : i \in 1..MaxUserId}

\* register, login, updateUserRole and deactivateUser over HTTP, one call at a
\* time, from the store as installed
NextApiSeq ==
  \/ Begin(1, ApiRequests, ValidHeaders)
  \/ ApiStep(1)

SpecApiSeq == Init /\ [][NextApiSeq]_vars

NodeEnvs == {"development", "production"}

\* the store after both seeded users have logged in, the process started in
\* either mode
InitFault ==
  /\ users = SeedUsers
  /\ usersIdSeq = 3
  /\ cart = {}
  /\ cartIdSeq = 1
  /\ issued = {GenerateToken(MapRowToUser(u)) : u \in SeedUsers}
  /\ registered = {}
  /\ req = [r \in Reqs |-> Idle]
  /\ nodeEnv \in NodeEnvs

FaultStep(r) ==
  \/ AuthQuery(r)
  \/ AddSelect(r)
  \/ AddInsert(r)
  \/ AddReselect(r)
  \/ RemoveDelete(r)
  \/ ClearExec(r)
  \/ CountSelect(r)
  \/ GetSelect(r)
  \/ RegSelect(r)
  \/ RegInsert(r)
  \/ LoginSelect(r)
  \/ ProfileSelect(r)
  \/ UsersSelect(r)
  \/ DeactUpdate(r)
  \/ RoleUpdate(r)
  \/ StoreFails(r)
  \/ Finish(r)

\* one request to every cart route, sent by the seeded user
FaultCartRequests ==
  {[Idle EXCEPT !.route = ro, !.courseId = ToDecimal(1)] : ro \in {"cartAdd", "cartRemove"}}
    \cup {[Idle EXCEPT !.route = ro, !.bought = b] :
            ro \in {"cartGet", "cartClear"}, b \in BoughtInputs}
    \cup {[Idle EXCEPT !.route = "cartCount"]}

\* one request to every account route, the administration requests aimed at
\* the accounts that register creates
FaultAccountRequests ==
  {[Idle EXCEPT !.route = ro] : ro \in {"profile", "users"}}
    \cup {[Idle EXCEPT !.route = "register", !.email = e, !.password = "secret1"] :
            e \in NewEmails}
    \cup {[Idle EXCEPT !.route = "login", !.email = UserEmail, !.password = SeedPassword]}
    \cup {[Idle EXCEPT !.route = "role", !.id = ToDecimal(i), !.role = ro] :
            i \in 3..MaxUserId, ro \in Roles}
    \cup {[Idle EXCEPT !.route = "deactivate", !.id = ToDecimal(i)] : i \in 3..MaxUserId}
    \cup {[Idle EXCEPT !.route = "guarded", !.allowed = {"admin"}]}

\* every operation, one call at a time, each store call free to fail
NextFault ==
  \/ Begin(1, FaultCartRequests, RaceHeaders)
  \/ Begin(1, FaultAccountRequests, ValidHeaders \cup {NoHeader})
  \/ FaultStep(1)

SpecFault == InitFault /\ [][NextFault]_vars

----------------------------------------------------------------------------
(* Properties *)

IsDone(q, route) == q.pc = "done" /\ q.route = route
RowsOf(c, u) == {x \in c : x.user_id = u}
Unbought(c, u) == {x \in c : x.user_id = u /\ ~x.bought}
PairRows(c, u, k) == {x \in c : x.user_id = u /\ x.course_id = k}
ActiveRow(us, id) == \E u \in us : u.id = id /\ u.is_active

\* authenticate let the request through: the identity is attached, and on a
\* route mounted behind authenticate alone the handler has been invoked
Proceeded(q) ==
  q.user # NoUser /\ (Middleware(q.route) = "authenticate" => q.handled)

C1_AtLookup(r) ==
  (req[r].pc = "authQuery" /\ req'[r].pc # "authQuery") =>
    /\ Proceeded(req'[r]) <=> ActiveRow(users, req[r].hdr.tok.userId)
    /\ ~Proceeded(req'[r]) =>
         req'[r].status = 401 /\ ~req'[r].handled /\ req'[r].user = NoUser

C1_AfterDeactivation ==
  \A r \in Reqs :
    req[r].stale =>
      /\ ~req[r].handled
      /\ req[r].user = NoUser
      /\ req[r].pc = "done" => req[r].status = 401

\* C1: a request carrying an unexpired token issued by register or login is let
\* through by authenticate exactly when its store lookup finds the token's user
\* with is_active = true; a request started after deactivateUser(u) completed is
\* answered 401 and its handler is never invoked.
C1_StaleTokenRejected ==
  /\ []C1_AfterDeactivation
  /\ [][\A r \in Reqs : C1_AtLookup(r)]_vars

C1_Witness ==
  \E r \in Reqs :
    /\ req[r].stale /\ req[r].pc = "done" /\ req[r].status = 401
    /\ req[r].hdr.tok \in issued /\ JwtVerifyOk(req[r].hdr)

\* C2: the cart store never holds two rows for one (userId, courseId) pair,
\* bought or not, whatever the interleaving of addToCart, removeFromCart and
\* clearCart calls.
C2_UniquePair ==
  \A x, y \in cart :
    (x.user_id = y.user_id /\ x.course_id = y.course_id) => x = y

C2_Witness ==
  \E r \in Reqs :
    /\ IsDone(req[r], "cartAdd") /\ req[r].found = "none" /\ req[r].rejected
    /\ Cardinality(PairRows(cart, req[r].user.id, ParseInt(req[r].courseId))) = 1

\* C3: an addToCart call that passed the existence check and whose insert the
\* store rejected fails with the AlreadyInCart failure.
C3_RaceLoserAlreadyInCart ==
  \A r \in Reqs :
    (IsDone(req[r], "cartAdd") /\ req[r].rejected) =>
      req[r].err = "Course already in Cart"

C4_Step(r) ==
  LET q == req[r]
      u == q.user.id
      k == ParseInt(q.courseId)
  IN /\ (q.pc = "addSelect" /\ req'[r].pc # "addSelect"
           /\ FoundAs(cart, u, k) = "unbought") =>
          /\ req'[r].pc = "done"
          /\ req'[r].err = "Course already in Cart"
          /\ cart' = cart
     /\ (q.pc = "addSelect" /\ req'[r].pc # "addSelect"
           /\ FoundAs(cart, u, k) = "none") =>
          req'[r].pc = "addInsert" /\ cart' = cart
     /\ (q.pc = "addInsert" /\ req'[r].pc # "addInsert"
           /\ FoundAs(cart, u, k) = "none") =>
          /\ cart \subseteq cart'
          /\ Cardinality(cart' \ cart) = 1
          /\ \A x \in cart' \ cart :
               x.user_id = u /\ x.course_id = k /\ ~x.bought /\ x.id = req'[r].loc
     /\ (q.pc = "addReselect" /\ req'[r].pc # "addReselect") =>
          /\ cart' = cart
          /\ req'[r].err = "" /\ req'[r].status = 201
          /\ \E x \in cart : /\ x.id = q.loc /\ ~x.bought
                             /\ req'[r].item = [id |-> x.id, userId |-> u, courseId |-> k]

\* C4: addToCart(u, c) with no row for (u, c) inserts exactly one row, with
\* bought = false, and returns it; with an unbought row for (u, c) it fails with
\* AlreadyInCart and leaves the store as it was.
C4_AddToCart == [][\A r \in Reqs : C4_Step(r)]_vars

C4_Witness ==
  \E r \in Reqs :
    /\ IsDone(req[r], "cartAdd") /\ req[r].found = "unbought"
    /\ req[r].err = "Course already in Cart"
    /\ \E x \in cart : x.user_id = req[r].user.id /\ ~x.bought
                        /\ x.course_id = ParseInt(req[r].courseId)

\* C5: addToCart(u, c) that finds the row for (u, c) with bought = true fails
\* with AlreadyPurchased.
C5_AlreadyPurchased ==
  \A r \in Reqs :
    (IsDone(req[r], "cartAdd") /\ req[r].found = "bought") =>
      req[r].err = "You already bought it"

\* C6: POST /api/cart for a course that is already in the caller's cart is
\* answered 400 or 409, and the first POST 201.
C6_SecondPostConflict ==
  \A r \in Reqs :
    /\ (IsDone(req[r], "cartAdd") /\ req[r].found = "unbought") =>
         req[r].status \in {400, 409}
    /\ (IsDone(req[r], "cartAdd") /\ req[r].found = "none" /\ req[r].handled
          /\ req[r].loc # 0) => req[r].status = 201

C7_Step(r) ==
  LET q == req[r]
      u == q.user.id
      k == ParseInt(q.courseId)
  IN (q.pc = "removeDelete" /\ req'[r].pc # "removeDelete") =>
       /\ FoundAs(cart, u, k) = "bought" => ~req'[r].ok /\ cart' = cart
       /\ FoundAs(cart, u, k) = "none" => ~req'[r].ok /\ cart' = cart
       /\ FoundAs(cart, u, k) = "unbought" =>
            /\ req'[r].ok
            /\ cart' = cart \ PairRows(cart, u, k)
            /\ Cardinality(cart') = Cardinality(cart) - 1
            /\ ~IsInCart(cart', u, k)

\* C7: removeFromCart(u, c) returns false and changes nothing when the row is
\* bought or missing; on an unbought row it deletes exactly that row and returns
\* true, and isInCart(u, c) is then false.
C7_RemoveFromCart == [][\A r \in Reqs : C7_Step(r)]_vars

C7_Witness ==
  \E r \in Reqs :
    /\ IsDone(req[r], "cartRemove") /\ ~req[r].ok /\ req[r].status = 404
    /\ \E x \in cart : x.user_id = req[r].user.id /\ x.bought
                        /\ x.course_id = ParseInt(req[r].courseId)

C8_Step(r) ==
  LET q == req[r]
      u == q.user.id
  IN (q.pc = "clearExec" /\ req'[r].pc # "clearExec") =>
       /\ Unbought(cart', u) = {}
       /\ cart' \ RowsOf(cart', u) = cart \ RowsOf(cart, u)
       /\ {x \in RowsOf(cart, u) : x.bought} \subseteq cart'
       /\ BoughtFlag(q) =>
            /\ {x.id : x \in cart'} = {x.id : x \in cart}
            /\ \A x \in Unbought(cart, u) : [x EXCEPT !.bought = TRUE] \in cart'
       /\ ~BoughtFlag(q) => cart' = cart \ Unbought(cart, u)

\* C8: clearCart(u, true) marks every unbought row of u bought and deletes no
\* row; clearCart(u, false) deletes every unbought row of u and keeps the bought
\* ones; after either u has no unbought row.
C8_ClearCart == [][\A r \in Reqs : C8_Step(r)]_vars

C8_Witness ==
  \E r \in Reqs :
    /\ IsDone(req[r], "cartClear") /\ ~BoughtFlag(req[r]) /\ req[r].ok
    /\ \E x \in cart : x.user_id = req[r].user.id /\ x.bought

C9_Step(r) ==
  (req[r].pc = "countSelect" /\ req'[r].pc # "countSelect") =>
    req'[r].num = Cardinality(Unbought(cart, req[r].user.id))

\* C9: getCartItemCount(u) is the number of rows of u with bought = false; after
\* two adds and clearCart(u, true) it is 0.
C9_CountUnbought == [][\A r \in Reqs : C9_Step(r)]_vars

C9_Witness ==
  \E r \in Reqs :
    /\ IsDone(req[r], "cartCount") /\ req[r].num = 0 /\ req[r].status = 200
    /\ Cardinality({x \in cart : x.user_id = req[r].user.id /\ x.bought}) = 2

C10_Step(r) ==
  \A g \in registered :
    (/\ req[r].pc = "loginSelect" /\ req'[r].pc # "loginSelect"
     /\ req[r].email = g.email /\ req[r].password = g.password
     /\ ActiveRow(users, g.id)) =>
      /\ req'[r].status = 200 /\ req'[r].err = ""
      /\ req'[r].ruser.id = g.id
      /\ req'[r].token.userId = g.id

\* C10: after a successful register, login with the same email and password,
\* the user not having been deactivated, succeeds and returns the user id that
\* register returned.
C10_LoginAfterRegister == [][\A r \in Reqs : C10_Step(r)]_vars

C10_Witness ==
  \E r \in Reqs : \E g \in registered :
    /\ IsDone(req[r], "login") /\ req[r].status = 200
    /\ req[r].email = g.email /\ req[r].password = g.password
    /\ req[r].ruser.id = g.id

C11_Step(r) ==
  (/\ req[r].pc = "regSelect" /\ req'[r].pc # "regSelect"
   /\ \E u \in users : u.email = req[r].email) =>
    /\ req'[r].pc = "done"
    /\ req'[r].err = "User already exists with this email"
    /\ req'[r].ruser = NoUserOut /\ req'[r].token = NoToken
    /\ users' = users /\ usersIdSeq' = usersIdSeq

\* C11: register called with an email for which a users row already exists,
\* active or deactivated, fails with the duplicate-email failure and leaves the
\* users table unchanged.
C11_DuplicateEmail == [][\A r \in Reqs : C11_Step(r)]_vars

C11_Witness ==
  \E r \in Reqs :
    /\ IsDone(req[r], "register")
    /\ req[r].err = "User already exists with this email"
    /\ \E u \in users : u.email = req[r].email /\ ~u.is_active

C12_Expected(q) ==
  IF q.role = "admin" /\ q.user.role = "admin" THEN "admin" ELSE "user"

C12_Step(r) ==
  LET q == req[r] IN
  (/\ q.pc = "regInsert" /\ req'[r].pc # "regInsert"
   /\ ~\E u \in users : u.email = q.email) =>
    /\ req'[r].err = "" /\ req'[r].status = 201
    /\ req'[r].ruser.role = C12_Expected(q)
    /\ users \subseteq users'
    /\ \E row \in users' :
         /\ users' \ users = {row}
         /\ row.email = q.email /\ row.role = C12_Expected(q)

\* C12: register stores role admin only when the request data asks for admin
\* and the requesting identity's role is admin; in every other case (no role,
\* role user, or admin asked by a caller who is not an admin or passes no
\* identity) it stores role user, and the call still succeeds.
C12_RegisterRole == [][\A r \in Reqs : C12_Step(r)]_vars

C12_Witness ==
  \E r \in Reqs :
    /\ IsDone(req[r], "register") /\ req[r].status = 201
    /\ req[r].role = "admin" /\ req[r].user.role = "admin"
    /\ \E u \in users : u.id = req[r].ruser.id /\ u.role = "admin" /\ u.id > 2

C13_Rejected(q, m) ==
  /\ q.pc = "done" /\ q.status = 401 /\ q.message = m
  /\ ~q.handled /\ q.user = NoUser

C13_Step(r) ==
  LET q == req'[r] IN
  (req[r].pc = "idle" /\ q.pc # "idle" /\ ~q.direct /\ Middleware(q.route) # "none") =>
    /\ ~HasBearer(q.hdr) => C13_Rejected(q, "Access token required")
    /\ (HasBearer(q.hdr) /\ (~q.hdr.intact \/ q.hdr.expired)) =>
         C13_Rejected(q, "Invalid token")
    /\ q.pc = "authQuery" <=> (HasBearer(q.hdr) /\ q.hdr.intact /\ ~q.hdr.expired)

\* C13: authenticate answers 401 without verifying a token or reading the
\* store when the Authorization header is missing or does not start with
\* 'Bearer ', and 401 without reading the store when the token fails
\* verification (bad signature, malformed, expired); in both cases the handler
\* is not invoked and no identity is attached.
C13_RejectedBeforeStore == [][\A r \in Reqs : C13_Step(r)]_vars

C13_Witness ==
  \E r \in Reqs :
    /\ C13_Rejected(req[r], "Invalid token")
    /\ req[r].hdr.tok \in issued /\ req[r].hdr.intact /\ req[r].hdr.expired
    /\ ActiveRow(users, req[r].hdr.tok.userId)

C14_Step(r) ==
  LET q == req[r]
      n == req'[r]
      rows == {u \in users : u.id = q.hdr.tok.userId /\ u.is_active}
  IN (q.pc = "authQuery" /\ n.pc # "authQuery") =>
       \A u \in rows :
         /\ n.user = [id |-> u.id, email |-> u.email, role |-> u.role]
         /\ Middleware(q.route) = "requireAdmin" =>
              /\ n.handled <=> u.role = "admin"
              /\ u.role # "admin" => n.pc = "done" /\ n.status = 403
         /\ Middleware(q.route) = "requireRole" =>
              /\ n.handled <=> u.role \in q.allowed
              /\ u.role \notin q.allowed => n.pc = "done" /\ n.status = 403

\* C14: the identity authenticate attaches is read from the current store row
\* and not from the token's claims: once updateUserRole(u, r) has completed, a
\* request carrying a token issued to u before the change is authorised with
\* role r (a demoted admin gets 403 on admin routes, a promoted user is
\* admitted).
C14_IdentityFromStore == [][\A r \in Reqs : C14_Step(r)]_vars

C14_Witness ==
  \E r \in Reqs :
    /\ req[r].pc = "done" /\ Middleware(req[r].route) = "requireAdmin"
    /\ req[r].hdr.tok \in issued /\ req[r].hdr.tok.role = "admin"
    /\ req[r].user.role = "user" /\ req[r].status = 403 /\ ~req[r].handled

C15_RoleWanted(q) ==
  IF Middleware(q.route) = "requireAdmin" THEN q.user.role = "admin"
  ELSE q.user.role \in q.allowed

C15_Request(q) ==
  (~q.direct /\ Middleware(q.route) \in {"requireAdmin", "requireRole"}) =>
    /\ q.handled => (q.user # NoUser /\ C15_RoleWanted(q))
    /\ (q.user # NoUser /\ ~C15_RoleWanted(q)) =>
         q.pc = "done" /\ q.status = 403 /\ ~q.handled
    /\ (q.user # NoUser /\ C15_RoleWanted(q)) => q.handled
    /\ (q.pc = "done" /\ q.user = NoUser) => q.status = 401 /\ ~q.handled

\* C15: requireAdmin invokes the handler only when authenticate succeeded and
\* the attached role is admin, and answers 403 when the attached identity has
\* another role; requireRole(allowed) does the same for a role outside allowed;
\* a request that fails authenticate is answered 401 and never 403.
C15_RoleGate == \A r \in Reqs : C15_Request(req[r])

C15_Witness ==
  \E r \in Reqs :
    /\ IsDone(req[r], "guarded") /\ req[r].status = 403 /\ ~req[r].handled
    /\ req[r].user.role = "admin" /\ req[r].allowed = {"user"}

C16_Step(r) ==
  LET q == req[r]
      n == req'[r]
      rows == {u \in users : u.email = q.email /\ u.is_active}
  IN (q.pc = "loginSelect" /\ n.pc # "loginSelect") =>
       /\ store' = store
       /\ rows = {} => n.err = "User not exist" /\ n.token = NoToken
       /\ \A u \in rows :
            IF Digest(u.password.salt, q.password) # u.password.digest
              THEN n.err = "Password is invalid" /\ n.token = NoToken
              ELSE /\ n.err = "" /\ n.status = 200
                   /\ n.ruser = [id |-> u.id, email |-> u.email, role |-> u.role,
                                  isActive |-> TRUE]
                   /\ n.token = [userId |-> u.id, email |-> u.email, role |-> u.role]

\* C16: login fails with the user-not-found failure when no active users row
\* has the given email, whatever the password; with the invalid-password
\* failure when the row exists and the password does not match the stored
\* hash; otherwise it returns the user with a token. login never changes the
\* store.
C16_Login == [][\A r \in Reqs : C16_Step(r)]_vars

C16_Witness ==
  \E r \in Reqs :
    /\ IsDone(req[r], "login") /\ req[r].err = "User not exist"
    /\ \E u \in users : /\ u.email = req[r].email /\ ~u.is_active
                         /\ BcryptCompare(req[r].password, u.password)

\* C17: PUT /api/auth/users/:id/role sent by an authenticated admin for an id
\* that has no users row is answered 404 and leaves the store unchanged.
C17_MissingUserNotFound ==
  \A r \in Reqs :
    (/\ IsDone(req[r], "role") /\ ~req[r].direct /\ req[r].handled
     /\ req[r].user.role = "admin"
     /\ ParseInt(req[r].id) # NaN /\ req[r].role \in Roles
     /\ ~\E u \in users : u.id = ParseInt(req[r].id)) =>
      req[r].status = 404

C18_Step(r) ==
  LET q == req[r]
      n == req'[r]
      had == Unbought(cart, q.user.id) # {}
  IN (q.pc = "clearExec" /\ n.pc # "clearExec") =>
       /\ n.ok <=> had
       /\ ~had => n.status = 404

\* C18: clearCart(u, b) returns true exactly when u had at least one unbought
\* row before the call, for both values of b; with only bought rows or no rows
\* it returns false, and DELETE /api/cart/clear then answers 404.
C18_ClearReturn == [][\A r \in Reqs : C18_Step(r)]_vars

\* C19: under any interleaving of concurrent register calls, two calls with the
\* same email that both pass the existence check included, no two users rows
\* share an email and at most one of the registrations for an email succeeds.
C19_UniqueEmail ==
  /\ \A x, y \in users : x.email = y.email => x = y
  /\ \A g, h \in registered : g.email = h.email => g = h
  /\ \A r, o \in Reqs :
       (/\ IsDone(req[r], "register") /\ IsDone(req[o], "register")
        /\ req[r].email = req[o].email
        /\ req[r].status = 201 /\ req[o].status = 201) => r = o

C19_Witness ==
  \E r, o \in Reqs :
    /\ IsDone(req[r], "register") /\ req[r].err = DuplicateKeyError
    /\ IsDone(req[o], "register") /\ req[o].status = 201
    /\ req[o].email = req[r].email
    /\ Cardinality({u \in users : u.email = req[r].email}) = 1

C20_Step(r) ==
  LET q == req[r]
      n == req'[r]
      self == {u \in users : /\ u.id = q.hdr.tok.userId /\ u.id = ParseInt(q.id)
                             /\ u.is_active /\ u.role = "admin"}
  IN /\ (/\ q.pc = "authQuery" /\ n.pc # "authQuery"
          /\ q.route = "deactivate" /\ self # {}) =>
          /\ n.pc = "done" /\ n.status = 400
          /\ n.message = "Cannot deactivate your own account"
          /\ users' = users
     /\ (/\ q.pc = "idle" /\ n.direct /\ n.route = "deactivate"
          /\ n.user.role = "admin" /\ ParseInt(n.id) = n.user.id) =>
          n.pc = "deactUpdate"
     /\ (/\ q.pc = "deactUpdate" /\ n.pc # "deactUpdate"
          /\ ParseInt(q.id) = q.user.id) =>
          /\ q.direct /\ n.ok
          /\ \A u \in users' : u.id = q.user.id => ~u.is_active

\* C20: DELETE /api/auth/users/:id sent by an admin whose own id equals :id is
\* answered 400 and leaves that admin's is_active true; the service-level
\* deactivateUser has no such check and deactivates the requester when it is
\* called with the requester's own id.
C20_SelfDeactivation == [][\A r \in Reqs : C20_Step(r)]_vars

C20_Witness ==
  \E r \in Reqs :
    /\ IsDone(req[r], "deactivate") /\ req[r].direct /\ req[r].ok
    /\ req[r].user.role = "admin" /\ ParseInt(req[r].id) = req[r].user.id
    /\ \E u \in users : u.id = req[r].user.id /\ u.role = "admin" /\ ~u.is_active

C21_Step(r) ==
  LET n == req'[r] IN
  (/\ req[r].pc = "idle" /\ n.pc # "idle" /\ n.direct
   /\ n.route \in {"users", "role", "deactivate"}
   /\ n.user.role # "admin") =>
    /\ n.pc = "done" /\ n.err = "Access denied"
    /\ n.acquired = 0 /\ n.list = {} /\ n.ruser = NoUserOut /\ ~n.ok
    /\ store' = store

\* C21: getAllUsers, updateUserRole and deactivateUser called with a
\* requesting identity whose role is not admin fail with the access-denied
\* failure before acquiring a connection or touching the store: no users row
\* is read or changed.
C21_AccessDeniedFirst == [][\A r \in Reqs : C21_Step(r)]_vars

C21_Witness ==
  \E r \in Reqs :
    /\ IsDone(req[r], "role") /\ req[r].direct /\ req[r].err = "Access denied"
    /\ req[r].user.role = "user" /\ req[r].acquired = 0
    /\ \E u \in users : u.id = ParseInt(req[r].id) /\ u.role = "admin"

CheckedOut(q) == q.acquired - q.released

\* C22: every UserService and CartService operation, and the authenticate
\* middleware, releases the pooled connection it acquired exactly once before
\* it returns, whether it succeeds or fails; after any sequence of completed
\* operations, failed ones included, no connection is checked out.
C22_ConnectionsReleased ==
  \A r \in Reqs :
    /\ CheckedOut(req[r]) \in {0, 1}
    /\ req[r].acquired <= 2
    /\ req[r].pc \in {"idle", "done"} => CheckedOut(req[r]) = 0
    /\ (req[r].pc \in StatementPcs /\ CheckedOut(req[r]) = 1) =>
         req[r].pc \in {"addInsert", "addReselect", "regInsert"}

C22_Witness ==
  \E r \in Reqs :
    /\ IsDone(req[r], "cartAdd") /\ req[r].fault = "addReselect"
    /\ req[r].err = DriverError
    /\ req[r].acquired = 2 /\ req[r].released = 2

\* C23: when a store operation fails with a driver error while the process is
\* not in development mode, the response the auth and cart controllers send
\* carries no raw driver error text.
C23_NoRawDriverText ==
  \A r \in Reqs :
    (/\ nodeEnv # "development" /\ ~req[r].direct
     /\ req[r].pc = "done" /\ req[r].handled /\ req[r].fault # "") =>
      /\ req[r].message \notin StoreErrors
      /\ req[r].error \notin StoreErrors

\* C24: when the token verifies but the store lookup in authenticate fails, the
\* request is answered 500 'Authentication error', not 401, and the downstream
\* handler is not invoked.
C24_LookupFailure500 ==
  \A r \in Reqs :
    (req[r].pc = "done" /\ req[r].fault = "authQuery") =>
      /\ req[r].status = 500 /\ req[r].message = "Authentication error"
      /\ ~req[r].handled

C25_Request(q) ==
  (~q.direct /\ Middleware(q.route) # "none" /\ q.pc # "idle") =>
    /\ q.pc = "authQuery" => (q.mwSent = 0 /\ q.nextCalls = 0 /\ q.acquired = 0)
    /\ q.pc # "authQuery" =>
         /\ q.mwSent + q.nextCalls = 1
         /\ q.mwSent = 1 =>
              q.pc = "done" /\ q.status \in {401, 403, 500} /\ ~q.handled
         /\ q.nextCalls = 1 <=> q.handled

\* C25: every request that enters authenticate, requireAdmin or requireRole
\* ends, provided its store calls return, in exactly one of two outcomes: one
\* error response (401, 403 or 500) is sent by the middleware, or the
\* downstream handler is invoked once; never both, never neither, and nothing
\* is retried.
C25_OneOutcome == \A r \in Reqs : C25_Request(req[r])

C25_Witness ==
  \E r \in Reqs :
    /\ IsDone(req[r], "guarded") /\ req[r].mwSent = 1 /\ req[r].nextCalls = 0
    /\ req[r].status = 403 /\ req[r].user.role = "user"

\* a request that the middleware authenticated as an admin is changing a role
C26_AdminActing(r) ==
  /\ req[r].pc = "roleUpdate" /\ req'[r].pc # "roleUpdate"
  /\ ~req[r].direct /\ req[r].handled
  /\ req[r].user.role = "admin" /\ req[r].user.id = req[r].hdr.tok.userId

C26_Step ==
  /\ \A n \in users' :
       (n.role = "admin" /\ ~\E o \in users : o.id = n.id /\ o.role = "admin") =>
         \E r \in Reqs : C26_AdminActing(r) /\ ParseInt(req[r].id) = n.id
  /\ \A r \in Reqs :
       (req[r].pc = "regInsert" /\ req'[r].pc # "regInsert" /\ ~req[r].direct) =>
         \A n \in users' \ users : n.role = "user"

\* C26: through the HTTP API a users row gets role admin, by creation or by
\* role change, only through a request that was authenticated as a user whose
\* stored role was admin; POST /api/auth/register never creates an admin,
\* whatever role the body asks for.
C26_AdminOnlyByAdmin == [][C26_Step]_vars

C26_Witness ==
  \E r \in Reqs :
    /\ IsDone(req[r], "register") /\ req[r].role = "admin" /\ req[r].status = 201
    /\ req[r].ruser.role = "user"
    /\ \E u \in users : u.id = req[r].ruser.id /\ u.role = "user"

\* C30: starting from a store with an active admin, after any sequence of
\* register, login, updateUserRole and deactivateUser requests at least one
\* user with role admin and is_active = true still exists.
C30_AdminRemains == \E u \in users : u.role = "admin" /\ u.is_active

\* C27: once a cart row has bought = true, no sequence of the routed cart
\* requests (list, count, add, remove, clear with either flag) deletes it or
\* sets bought back to false.
C27_BoughtRowsKept == [][\A x \in cart : x.bought => x \in cart']_vars

C27_Witness ==
  \E r \in Reqs :
    /\ IsDone(req[r], "cartClear") /\ ~BoughtFlag(req[r]) /\ req[r].status = 404
    /\ \E x \in cart : x.user_id = req[r].user.id /\ x.bought

CartPcs ==
  {"addSelect", "addInsert", "addReselect", "removeDelete", "clearExec",
   "countSelect", "getSelect"}

C28_Step(r) ==
  LET q == req[r]
      n == req'[r]
      u == q.user.id
      own == {[id |-> x.id, userId |-> x.user_id, courseId |-> x.course_id] :
                x \in {y \in cart \cup cart' : y.user_id = u}}
  IN (q.pc \in CartPcs /\ n.pc # q.pc) =>
       /\ {x \in cart' : x.user_id # u} = {x \in cart : x.user_id # u}
       /\ n.items \subseteq own
       /\ n.item # NoItem => n.item \in own
       /\ n.num <= Cardinality({x \in cart : x.user_id = u})

\* C28: a cart request authenticated as user u (add, remove, list, count,
\* clear) reads and changes only rows whose user_id is u: the cart rows of
\* every other user are the same before and after, and never appear in u's
\* results.
C28_OwnRowsOnly == [][\A r \in Reqs : C28_Step(r)]_vars

C28_Witness ==
  \E r \in Reqs :
    /\ IsDone(req[r], "cartClear") /\ BoughtFlag(req[r]) /\ req[r].ok
    /\ \E x \in cart : x.user_id # req[r].user.id /\ ~x.bought

MutationPcs ==
  {"addInsert", "removeDelete", "clearExec", "roleUpdate", "deactUpdate"}

C29_Step(r) ==
  (/\ req[r].pc \in MutationPcs /\ req'[r].pc # req[r].pc
   /\ ~req[r].direct /\ store' # store) =>
    ActiveRow(users, req[r].user.id)

\* C29: under any interleaving of concurrent requests, no cart mutation and no
\* admin mutation is applied to the store at a moment when the requesting
\* user's row has is_active = false: a request authenticated before its user
\* was deactivated does not go on to mutate the store afterwards.
C29_NoMutationWhileInactive == [][\A r \in Reqs : C29_Step(r)]_vars

====
